---- MODULE Spec2Model ----
(***************************************************************************)
(* Model of examples/example_01.py of discorpy: the dot-pattern           *)
(* calibration script.                                                     *)
(*                                                                         *)
(* The script is straight-line code.  Each statement, or group of          *)
(* statements that belong to one call, is one action, guarded by the      *)
(* program counter pc; the labels of pc are line numbers of               *)
(* example_01.py.  The timing statements and the progress messages are    *)
(* left out; the warnings are kept.                                       *)
(*                                                                         *)
(* Python values are objects: heap is the sequence of the objects         *)
(* allocated so far and a variable of the script holds the index of the   *)
(* object it is bound to (NoRef while it is unbound).                     *)
(*                                                                         *)
(* The functions of discorpy.losa, discorpy.prep, discorpy.proc and       *)
(* discorpy.post are called by the script and are not part of it.  Each   *)
(* is modelled as a function that returns a new object recording the call *)
(* and the objects it received.  An image additionally carries the bag of *)
(* blobs it shows, because the script branches on their number.           *)
(***************************************************************************)
EXTENDS Integers, Sequences, FiniteSets, Bags, TLC

\* Largest number of blobs in the photographed target.
MaxDots == 4

\* Largest number of vacant pixels a forward unwarp leaves.
MaxVacant == 1

\* Blob areas, and blob axis ratios times 10, that occur in a photograph.
DotSizes == {2, 3}
AxisRatios == {12, 20}
Blobs == [size : DotSizes, axis : AxisRatios]

\* Fewest objects check_num_dots accepts.
MinNumDots == 3

VARIABLES
    pc,              \* line of the next statement, "done" or "error"
    norm,            \* the parameter norm (line 43)
    num_coef,        \* the parameter num_coef (line 42)
    file,            \* the bag of blobs in the photograph at file_path
    heap,            \* the objects allocated so far
    mat0, mat1, corrected_mat,
    check, check1, check2,
    dot_size, dot_dist, hor_slope, ver_slope,
    list_hor_lines, list_ver_lines,
    list_uhor_lines, list_uver_lines,
    list_hor_data, list_ver_data,
    xcenter, ycenter,
    list_fact, list_ffact, list_bfact,
    calls,           \* every call made so far: function, line, arguments, results
    printed,         \* what has been printed so far (warnings and reports)
    error            \* the exception that ended the run, "" when none

params == <<norm, num_coef, file>>
vars == <<pc, params, heap, mat0, mat1, corrected_mat, check, check1, check2,
          dot_size, dot_dist, hor_slope, ver_slope, list_hor_lines,
          list_ver_lines, list_uhor_lines, list_uver_lines, list_hor_data,
          list_ver_data, xcenter, ycenter, list_fact, list_ffact, list_bfact,
          calls, printed, error>>

----------------------------------------------------------------------------
(* Objects *)

\* An object: the function that made it, the objects that function
\* received, the blobs it shows (an image) and the number it holds.
Obj(op, args, data, num) == [op |-> op, args |-> args, data |-> data, num |-> num]
\* What reading an unbound name yields.
Undef == Obj("undef", <<>>, EmptyBag, 0)
\* An unbound variable.
NoRef == 0
\* The literal 0.0 of lines 126 and 129: the first object of the heap.
ZeroLit == 1

\* The object a reference refers to.
Get(r) == IF r \in 1..Len(heap) THEN heap[r] ELSE Undef

\* A call: args and out are references.
Call(fn, line, args, out) == [fn |-> fn, line |-> line, args |-> args, out |-> out]

\* A line the script prints.
Warning(msg) == [msg |-> msg, num |-> 0]

\* The sum of f over the set S.
RECURSIVE SumOver(_, _)
SumOver(f, S) ==
    IF S = {} THEN 0
    ELSE LET x == CHOOSE y \in S : TRUE IN f[x] + SumOver(f, S \ {x})

\* The bags of at most n blobs.
BagsUpTo(n) ==
    LET counts == {f \in [Blobs -> 0..n] : SumOver(f, Blobs) <= n}
    IN  {[b \in {x \in Blobs : f[x] > 0} |-> f[b]] : f \in counts}

\* The blobs of B that are in the set S.
FilterBag(B, S) == [b \in DOMAIN B \cap S |-> B[b]]

\* Number of blobs of B of size at most s.
CountLE(B, s) == BagCardinality(FilterBag(B, {b \in Blobs : b.size <= s}))
\* The k-th smallest blob size of B, 1 <= k <= BagCardinality(B).
KthSize(B, k) ==
    CHOOSE s \in DotSizes : CountLE(B, s) >= k /\ CountLE(B, s - 1) < k
\* Twice the median blob size of B (numpy.median averages the two middle
\* values of an even number of values); 0 for an empty bag.
Median2(B) ==
    LET n == BagCardinality(B)
    IN  IF n = 0 THEN 0
        ELSE IF n % 2 = 1 THEN 2 * KthSize(B, (n + 1) \div 2)
        ELSE KthSize(B, n \div 2) + KthSize(B, n \div 2 + 1)

----------------------------------------------------------------------------
(* The library, as the script uses it.  The parameters are references. *)

load_image(blobs) == Obj("load_image", <<>>, blobs, 0)
\* numpy.copy: a new array with the content of m.
np_copy(m) == Get(m)
normalization_fft(m) == Obj("normalization_fft", <<m>>, Get(m).data, 0)
binarization(m) == Obj("binarization", <<m>>, Get(m).data, 0)
\* TRUE when too few objects were detected.
check_num_dots(m) == BagCardinality(Get(m).data) < MinNumDots
\* calc_size_distance returns the pair (dot_size, dot_dist); num is twice dot_size.
calc_size(m) == Obj("calc_size_distance.size", <<m>>, EmptyBag, Median2(Get(m).data))
calc_distance(m) == Obj("calc_size_distance.dist", <<m>>, EmptyBag, 0)
\* ratio = 0.3: the blobs of size in [dot_size * 0.7, dot_size * 1.3].
select_dots_based_size(m, dsize) ==
    Obj("select_dots_based_size", <<m, dsize>>,
        FilterBag(Get(m).data,
                  {b \in Blobs : /\ 7 * Get(dsize).num <= 20 * b.size
                                 /\ 20 * b.size <= 13 * Get(dsize).num}),
        0)
\* ratio = 0.5: the blobs of axis ratio in (1; 1.5).
select_dots_based_ratio(m) ==
    Obj("select_dots_based_ratio", <<m>>,
        FilterBag(Get(m).data, {b \in Blobs : 10 < b.axis /\ b.axis < 15}), 0)
calc_hor_slope(m) == Obj("calc_hor_slope", <<m>>, EmptyBag, 0)
calc_ver_slope(m) == Obj("calc_ver_slope", <<m>>, EmptyBag, 0)
group_dots_hor_lines(m, slope, dist) ==
    Obj("group_dots_hor_lines", <<m, slope, dist>>, EmptyBag, 0)
group_dots_ver_lines(m, slope, dist) ==
    Obj("group_dots_ver_lines", <<m, slope, dist>>, EmptyBag, 0)
remove_residual_dots_hor(lines, slope) ==
    Obj("remove_residual_dots_hor", <<lines, slope>>, EmptyBag, 0)
remove_residual_dots_ver(lines, slope) ==
    Obj("remove_residual_dots_ver", <<lines, slope>>, EmptyBag, 0)
calc_residual_hor(lines, xc, yc) ==
    Obj("calc_residual_hor", <<lines, xc, yc>>, EmptyBag, 0)
calc_residual_ver(lines, xc, yc) ==
    Obj("calc_residual_ver", <<lines, xc, yc>>, EmptyBag, 0)
\* find_cod_coarse returns the pair (xcenter, ycenter).
find_cod_coarse_x(hl, vl) == Obj("find_cod_coarse.x", <<hl, vl>>, EmptyBag, 0)
find_cod_coarse_y(hl, vl) == Obj("find_cod_coarse.y", <<hl, vl>>, EmptyBag, 0)
calc_coef_backward(hl, vl, xc, yc, n) ==
    Obj("calc_coef_backward", <<hl, vl, xc, yc, n>>, EmptyBag, 0)
calc_coef_forward(hl, vl, xc, yc, n) ==
    Obj("calc_coef_forward", <<hl, vl, xc, yc, n>>, EmptyBag, 0)
\* calc_coef_backward_from_forward returns the pair (list_ffact, list_bfact).
calc_coef_backward_from_forward_f(hl, vl, xc, yc, n) ==
    Obj("calc_coef_backward_from_forward.ffact", <<hl, vl, xc, yc, n>>, EmptyBag, 0)
calc_coef_backward_from_forward_b(hl, vl, xc, yc, n) ==
    Obj("calc_coef_backward_from_forward.bfact", <<hl, vl, xc, yc, n>>, EmptyBag, 0)
unwarp_image_backward(m, xc, yc, fact) ==
    Obj("unwarp_image_backward", <<m, xc, yc, fact>>, Get(m).data, 0)
\* vacant: the number of destination pixels that no source pixel maps to.
unwarp_image_forward(m, xc, yc, fact, vacant) ==
    Obj("unwarp_image_forward", <<m, xc, yc, fact>>, Get(m).data, vacant)
\* As coverage_report, but nothing is reported.
coverage_report_Silent(vacant) == << >>

\* What the forward unwarp reports about the pixels it could not fill.
coverage_report(vacant) == << [msg |-> "coverage", num |-> vacant] >>
unwarp_line_backward(lines, xc, yc, fact) ==
    Obj("unwarp_line_backward", <<lines, xc, yc, fact>>, EmptyBag, 0)
unwarp_line_forward(lines, xc, yc, fact) ==
    Obj("unwarp_line_forward", <<lines, xc, yc, fact>>, EmptyBag, 0)
\* np.abs(a - b): a new array.  The reference a may be the object being
\* allocated in the same step, so only the references are recorded.
abs_diff(a, b) == Obj("abs_diff", <<a, b>>, EmptyBag, 0)

----------------------------------------------------------------------------
(* The script *)

\* The state when line 49 is reached: the parameters of lines 40-43 are set.
Init ==
    /\ pc = "L49"
    /\ norm \in BOOLEAN
    /\ file \in BagsUpTo(MaxDots)
    /\ heap = << Obj("literal", <<>>, EmptyBag, 0),
                 Obj("literal", <<>>, EmptyBag, 5) >>
    /\ num_coef = 2
    /\ mat0 = NoRef /\ mat1 = NoRef /\ corrected_mat = NoRef
    /\ check = FALSE /\ check1 = FALSE /\ check2 = FALSE
    /\ dot_size = NoRef /\ dot_dist = NoRef
    /\ hor_slope = NoRef /\ ver_slope = NoRef
    /\ list_hor_lines = NoRef /\ list_ver_lines = NoRef
    /\ list_uhor_lines = NoRef /\ list_uver_lines = NoRef
    /\ list_hor_data = NoRef /\ list_ver_data = NoRef
    /\ xcenter = NoRef /\ ycenter = NoRef
    /\ list_fact = NoRef /\ list_ffact = NoRef /\ list_bfact = NoRef
    /\ calls = <<>>
    /\ printed = <<>>
    /\ error = ""

\* mat0 = io.load_image(file_path)
LoadImage ==
    /\ pc = "L49"
    /\ heap' = Append(heap, load_image(file))
    /\ mat0' = Len(heap) + 1
    /\ calls' = Append(calls,
         Call("load_image", 49, <<>>, <<Len(heap) + 1>>))
    /\ pc' = "L55"
    /\ UNCHANGED <<params, mat1, corrected_mat, check, dot_size, dot_dist,
                   hor_slope, ver_slope, list_hor_lines, list_ver_lines,
                   list_uhor_lines, list_uver_lines, list_hor_data,
                   list_ver_data, check1, check2, xcenter, ycenter,
                   list_fact, list_ffact, list_bfact, printed, error>>

\* if norm is True: mat1 = prep.normalization_fft(mat0, sigma=5, pad=30)
NormalizationFft ==
    /\ pc = "L55"
    /\ norm
    /\ heap' = Append(heap, normalization_fft(mat0))
    /\ mat1' = Len(heap) + 1
    /\ calls' = Append(calls,
         Call("normalization_fft", 56, <<mat0>>, <<Len(heap) + 1>>))
    /\ pc' = "L64"
    /\ UNCHANGED <<params, mat0, corrected_mat, check, dot_size, dot_dist,
                   hor_slope, ver_slope, list_hor_lines, list_ver_lines,
                   list_uhor_lines, list_uver_lines, list_hor_data,
                   list_ver_data, check1, check2, xcenter, ycenter,
                   list_fact, list_ffact, list_bfact, printed, error>>

\* As CopyImage, but mat1 = mat0: no copy is made.
CopyImage_Alias ==
    /\ pc = "L55"
    /\ ~norm
    /\ mat1' = mat0
    /\ pc' = "L64"
    /\ UNCHANGED <<params, heap, mat0, corrected_mat, check, dot_size, dot_dist,
                   hor_slope, ver_slope, list_hor_lines, list_ver_lines,
                   list_uhor_lines, list_uver_lines, list_hor_data,
                   list_ver_data, check1, check2, xcenter, ycenter,
                   list_fact, list_ffact, list_bfact, calls, printed, error>>

\* else: mat1 = np.copy(mat0)
CopyImage ==
    /\ pc = "L55"
    /\ ~norm
    /\ heap' = Append(heap, np_copy(mat0))
    /\ mat1' = Len(heap) + 1
    /\ calls' = Append(calls,
         Call("copy", 58, <<mat0>>, <<Len(heap) + 1>>))
    /\ pc' = "L64"
    /\ UNCHANGED <<params, mat0, corrected_mat, check, dot_size, dot_dist,
                   hor_slope, ver_slope, list_hor_lines, list_ver_lines,
                   list_uhor_lines, list_uver_lines, list_hor_data,
                   list_ver_data, check1, check2, xcenter, ycenter,
                   list_fact, list_ffact, list_bfact, printed, error>>

\* mat1 = prep.binarization(mat1, ratio=0.3, thres=None)
Binarization ==
    /\ pc = "L64"
    /\ heap' = Append(heap, binarization(mat1))
    /\ mat1' = Len(heap) + 1
    /\ calls' = Append(calls,
         Call("binarization", 64, <<mat1>>, <<Len(heap) + 1>>))
    /\ pc' = "L65"
    /\ UNCHANGED <<params, mat0, corrected_mat, check, dot_size, dot_dist,
                   hor_slope, ver_slope, list_hor_lines, list_ver_lines,
                   list_uhor_lines, list_uver_lines, list_hor_data,
                   list_ver_data, check1, check2, xcenter, ycenter,
                   list_fact, list_ffact, list_bfact, printed, error>>

\* As CheckNumDots, but the result of check_num_dots is dropped.
CheckNumDots_ResultDropped ==
    /\ pc = "L65"
    /\ check' = FALSE
    /\ calls' = Append(calls,
         Call("check_num_dots", 65, <<mat1>>, <<>>))
    /\ pc' = "L66"
    /\ UNCHANGED <<params, heap, mat0, mat1, corrected_mat, dot_size, dot_dist,
                   hor_slope, ver_slope, list_hor_lines, list_ver_lines,
                   list_uhor_lines, list_uver_lines, list_hor_data,
                   list_ver_data, check1, check2, xcenter, ycenter,
                   list_fact, list_ffact, list_bfact, printed, error>>

\* check = prep.check_num_dots(mat1)
CheckNumDots ==
    /\ pc = "L65"
    /\ check' = check_num_dots(mat1)
    /\ calls' = Append(calls,
         Call("check_num_dots", 65, <<mat1>>, <<>>))
    /\ pc' = "L66"
    /\ UNCHANGED <<params, heap, mat0, mat1, corrected_mat, dot_size,
                   dot_dist, hor_slope, ver_slope, list_hor_lines,
                   list_ver_lines, list_uhor_lines, list_uver_lines,
                   list_hor_data, list_ver_data, check1, check2, xcenter,
                   ycenter, list_fact, list_ffact, list_bfact, printed,
                   error>>

\* As RaiseValueError, but the message is printed instead of raised.
RaiseValueError_Printed ==
    /\ pc = "L66"
    /\ check
    /\ printed' = Append(printed, Warning("Number of objects detected is not enough"))
    /\ pc' = "L75"
    /\ UNCHANGED <<params, heap, mat0, mat1, corrected_mat, check, dot_size,
                   dot_dist, hor_slope, ver_slope, list_hor_lines,
                   list_ver_lines, list_uhor_lines, list_uver_lines,
                   list_hor_data, list_ver_data, check1, check2, xcenter,
                   ycenter, list_fact, list_ffact, list_bfact, calls, error>>

\* if check: raise ValueError(...)
RaiseValueError ==
    /\ pc = "L66"
    /\ check
    /\ error' = "ValueError"
    /\ pc' = "error"
    /\ UNCHANGED <<params, heap, mat0, mat1, corrected_mat, check, dot_size,
                   dot_dist, hor_slope, ver_slope, list_hor_lines,
                   list_ver_lines, list_uhor_lines, list_uver_lines,
                   list_hor_data, list_ver_data, check1, check2, xcenter,
                   ycenter, list_fact, list_ffact, list_bfact, calls,
                   printed>>

\* io.save_image(output_base + "/binarized_image.tif", mat1)
SaveBinarized ==
    /\ pc = "L66"
    /\ ~check
    /\ calls' = Append(calls,
         Call("save_image", 70, <<mat1>>, <<>>))
    /\ pc' = "L75"
    /\ UNCHANGED <<params, heap, mat0, mat1, corrected_mat, check, dot_size,
                   dot_dist, hor_slope, ver_slope, list_hor_lines,
                   list_ver_lines, list_uhor_lines, list_uver_lines,
                   list_hor_data, list_ver_data, check1, check2, xcenter,
                   ycenter, list_fact, list_ffact, list_bfact, printed,
                   error>>

\* (dot_size, dot_dist) = prep.calc_size_distance(mat1, ratio=0.3)
CalcSizeDistance ==
    /\ pc = "L75"
    /\ heap' = heap \o <<calc_size(mat1), calc_distance(mat1)>>
    /\ dot_size' = Len(heap) + 1
    /\ dot_dist' = Len(heap) + 2
    /\ calls' = Append(calls,
         Call("calc_size_distance", 75, <<mat1>>, <<Len(heap) + 1, Len(heap) + 2>>))
    /\ pc' = "L81"
    /\ UNCHANGED <<params, mat0, mat1, corrected_mat, check, hor_slope,
                   ver_slope, list_hor_lines, list_ver_lines,
                   list_uhor_lines, list_uver_lines, list_hor_data,
                   list_ver_data, check1, check2, xcenter, ycenter,
                   list_fact, list_ffact, list_bfact, printed, error>>

\* mat1 = prep.select_dots_based_size(mat1, dot_size, ratio=0.3)
\* io.save_image(output_base + "/cleaned_1_image.tif", mat1)
SelectDotsBasedSize ==
    /\ pc = "L81"
    /\ heap' = Append(heap, select_dots_based_size(mat1, dot_size))
    /\ mat1' = Len(heap) + 1
    /\ calls' = calls \o
         << Call("select_dots_based_size", 81, <<mat1, dot_size>>, <<Len(heap) + 1>>),
            Call("save_image", 82, <<mat1'>>, <<>>) >>
    /\ pc' = "L86"
    /\ UNCHANGED <<params, mat0, corrected_mat, check, dot_size, dot_dist,
                   hor_slope, ver_slope, list_hor_lines, list_ver_lines,
                   list_uhor_lines, list_uver_lines, list_hor_data,
                   list_ver_data, check1, check2, xcenter, ycenter,
                   list_fact, list_ffact, list_bfact, printed, error>>

\* mat1 = prep.select_dots_based_ratio(mat1, ratio=0.5)
\* io.save_image(output_base + "/cleaned_2_image.tif", mat1)
SelectDotsBasedRatio ==
    /\ pc = "L86"
    /\ heap' = Append(heap, select_dots_based_ratio(mat1))
    /\ mat1' = Len(heap) + 1
    /\ calls' = calls \o
         << Call("select_dots_based_ratio", 86, <<mat1>>, <<Len(heap) + 1>>),
            Call("save_image", 87, <<mat1'>>, <<>>) >>
    /\ pc' = "L91"
    /\ UNCHANGED <<params, mat0, corrected_mat, check, dot_size, dot_dist,
                   hor_slope, ver_slope, list_hor_lines, list_ver_lines,
                   list_uhor_lines, list_uver_lines, list_hor_data,
                   list_ver_data, check1, check2, xcenter, ycenter,
                   list_fact, list_ffact, list_bfact, printed, error>>

\* hor_slope = prep.calc_hor_slope(mat1, ratio=0.3)
\* ver_slope = prep.calc_ver_slope(mat1, ratio=0.3)
CalcSlopes ==
    /\ pc = "L91"
    /\ heap' = heap \o <<calc_hor_slope(mat1), calc_ver_slope(mat1)>>
    /\ hor_slope' = Len(heap) + 1
    /\ ver_slope' = Len(heap) + 2
    /\ calls' = calls \o
         << Call("calc_hor_slope", 91, <<mat1>>, <<Len(heap) + 1>>),
            Call("calc_ver_slope", 92, <<mat1>>, <<Len(heap) + 2>>) >>
    /\ pc' = "L101"
    /\ UNCHANGED <<params, mat0, mat1, corrected_mat, check, dot_size,
                   dot_dist, list_hor_lines, list_ver_lines, list_uhor_lines,
                   list_uver_lines, list_hor_data, list_ver_data, check1,
                   check2, xcenter, ycenter, list_fact, list_ffact,
                   list_bfact, printed, error>>

\* list_hor_lines = prep.group_dots_hor_lines(mat1, hor_slope, dot_dist, ...)
GroupDotsHorLines ==
    /\ pc = "L101"
    /\ heap' = Append(heap, group_dots_hor_lines(mat1, hor_slope, dot_dist))
    /\ list_hor_lines' = Len(heap) + 1
    /\ calls' = Append(calls,
         Call("group_dots_hor_lines", 101, <<mat1, hor_slope, dot_dist>>, <<Len(heap) + 1>>))
    /\ pc' = "L103"
    /\ UNCHANGED <<params, mat0, mat1, corrected_mat, check, dot_size,
                   dot_dist, hor_slope, ver_slope, list_ver_lines,
                   list_uhor_lines, list_uver_lines, list_hor_data,
                   list_ver_data, check1, check2, xcenter, ycenter,
                   list_fact, list_ffact, list_bfact, printed, error>>

\* list_ver_lines = prep.group_dots_ver_lines(mat1, ver_slope, dot_dist, ...)
\* io.save_plot_image of list_hor_lines and of list_ver_lines
GroupDotsVerLines ==
    /\ pc = "L103"
    /\ heap' = Append(heap, group_dots_ver_lines(mat1, ver_slope, dot_dist))
    /\ list_ver_lines' = Len(heap) + 1
    /\ calls' = calls \o
         << Call("group_dots_ver_lines", 103, <<mat1, ver_slope, dot_dist>>, <<Len(heap) + 1>>),
            Call("save_plot_image", 105, <<list_hor_lines>>, <<>>),
            Call("save_plot_image", 107, <<list_ver_lines'>>, <<>>) >>
    /\ pc' = "L113"
    /\ UNCHANGED <<params, mat0, mat1, corrected_mat, check, dot_size,
                   dot_dist, hor_slope, ver_slope, list_hor_lines,
                   list_uhor_lines, list_uver_lines, list_hor_data,
                   list_ver_data, check1, check2, xcenter, ycenter,
                   list_fact, list_ffact, list_bfact, printed, error>>

\* list_hor_lines = prep.remove_residual_dots_hor(list_hor_lines, hor_slope, residual=2.0)
RemoveResidualDotsHor ==
    /\ pc = "L113"
    /\ heap' = Append(heap, remove_residual_dots_hor(list_hor_lines, hor_slope))
    /\ list_hor_lines' = Len(heap) + 1
    /\ calls' = Append(calls,
         Call("remove_residual_dots_hor", 113, <<list_hor_lines, hor_slope>>, <<Len(heap) + 1>>))
    /\ pc' = "L115"
    /\ UNCHANGED <<params, mat0, mat1, corrected_mat, check, dot_size,
                   dot_dist, hor_slope, ver_slope, list_ver_lines,
                   list_uhor_lines, list_uver_lines, list_hor_data,
                   list_ver_data, check1, check2, xcenter, ycenter,
                   list_fact, list_ffact, list_bfact, printed, error>>

\* list_ver_lines = prep.remove_residual_dots_ver(list_ver_lines, ver_slope, residual=2.0)
\* io.save_plot_image of list_hor_lines and of list_ver_lines
RemoveResidualDotsVer ==
    /\ pc = "L115"
    /\ heap' = Append(heap, remove_residual_dots_ver(list_ver_lines, ver_slope))
    /\ list_ver_lines' = Len(heap) + 1
    /\ calls' = calls \o
         << Call("remove_residual_dots_ver", 115, <<list_ver_lines, ver_slope>>, <<Len(heap) + 1>>),
            Call("save_plot_image", 117, <<list_hor_lines>>, <<>>),
            Call("save_plot_image", 119, <<list_ver_lines'>>, <<>>) >>
    /\ pc' = "L126"
    /\ UNCHANGED <<params, mat0, mat1, corrected_mat, check, dot_size,
                   dot_dist, hor_slope, ver_slope, list_hor_lines,
                   list_uhor_lines, list_uver_lines, list_hor_data,
                   list_ver_data, check1, check2, xcenter, ycenter,
                   list_fact, list_ffact, list_bfact, printed, error>>

\* list_hor_data = post.calc_residual_hor(list_hor_lines, 0.0, 0.0)
\* list_ver_data = post.calc_residual_ver(list_ver_lines, 0.0, 0.0)
\* io.save_residual_plot of each
CalcResidualBefore ==
    /\ pc = "L126"
    /\ heap' = heap \o <<calc_residual_hor(list_hor_lines, ZeroLit, ZeroLit),
                      calc_residual_ver(list_ver_lines, ZeroLit, ZeroLit)>>
    /\ list_hor_data' = Len(heap) + 1
    /\ list_ver_data' = Len(heap) + 2
    /\ calls' = calls \o
         << Call("calc_residual_hor", 126, <<list_hor_lines, ZeroLit, ZeroLit>>, <<Len(heap) + 1>>),
            Call("save_residual_plot", 127, <<list_hor_data'>>, <<>>),
            Call("calc_residual_ver", 129, <<list_ver_lines, ZeroLit, ZeroLit>>, <<Len(heap) + 2>>),
            Call("save_residual_plot", 130, <<list_ver_data'>>, <<>>) >>
    /\ pc' = "L132"
    /\ UNCHANGED <<params, mat0, mat1, corrected_mat, check, dot_size,
                   dot_dist, hor_slope, ver_slope, list_hor_lines,
                   list_ver_lines, list_uhor_lines, list_uver_lines, check1,
                   check2, xcenter, ycenter, list_fact, list_ffact,
                   list_bfact, printed, error>>

\* As CheckDistortionBefore, but the script stops when the distortion is
\* not significant.
CheckDistortionBefore_Stops ==
    /\ pc = "L132"
    /\ \E c1, c2 \in BOOLEAN :
         /\ check1' = c1
         /\ check2' = c2
         /\ printed' = IF (~c1) /\ (~c2)
                       THEN Append(printed, Warning("Distortion is not significant"))
                       ELSE printed
         /\ pc' = IF (~c1) /\ (~c2) THEN "done" ELSE "L139"
    /\ calls' = calls \o
         << Call("check_distortion", 132, <<list_hor_data>>, <<>>),
            Call("check_distortion", 133, <<list_ver_data>>, <<>>) >>
    /\ UNCHANGED <<params, heap, mat0, mat1, corrected_mat, check, dot_size,
                   dot_dist, hor_slope, ver_slope, list_hor_lines,
                   list_ver_lines, list_uhor_lines, list_uver_lines,
                   list_hor_data, list_ver_data, xcenter, ycenter, list_fact,
                   list_ffact, list_bfact, error>>

\* check1 = post.check_distortion(list_hor_data)
\* check2 = post.check_distortion(list_ver_data)
\* if (not check1) and (not check2): print(...)
CheckDistortionBefore ==
    /\ pc = "L132"
    /\ \E c1, c2 \in BOOLEAN :
         /\ check1' = c1
         /\ check2' = c2
         /\ printed' = IF (~c1) /\ (~c2)
                       THEN Append(printed, Warning("Distortion is not significant"))
                       ELSE printed
    /\ calls' = calls \o
         << Call("check_distortion", 132, <<list_hor_data>>, <<>>),
            Call("check_distortion", 133, <<list_ver_data>>, <<>>) >>
    /\ pc' = "L139"
    /\ UNCHANGED <<params, heap, mat0, mat1, corrected_mat, check, dot_size,
                   dot_dist, hor_slope, ver_slope, list_hor_lines,
                   list_ver_lines, list_uhor_lines, list_uver_lines,
                   list_hor_data, list_ver_data, xcenter, ycenter, list_fact,
                   list_ffact, list_bfact, error>>

\* As FindCodCoarse, but line 139 is commented out like lines 144-145.
FindCodCoarse_CommentedOut ==
    /\ pc = "L139"
    /\ pc' = "L151"
    /\ UNCHANGED <<params, heap, mat0, mat1, corrected_mat, check, dot_size,
                   dot_dist, hor_slope, ver_slope, list_hor_lines,
                   list_ver_lines, list_uhor_lines, list_uver_lines,
                   list_hor_data, list_ver_data, check1, check2, xcenter,
                   ycenter, list_fact, list_ffact, list_bfact, calls,
                   printed, error>>

\* (xcenter, ycenter) = proc.find_cod_coarse(list_hor_lines, list_ver_lines)
\* (the call of proc.find_cod_fine at lines 144-145 is commented out)
FindCodCoarse ==
    /\ pc = "L139"
    /\ heap' = heap \o <<find_cod_coarse_x(list_hor_lines, list_ver_lines),
                      find_cod_coarse_y(list_hor_lines, list_ver_lines)>>
    /\ xcenter' = Len(heap) + 1
    /\ ycenter' = Len(heap) + 2
    /\ calls' = Append(calls,
         Call("find_cod_coarse", 139, <<list_hor_lines, list_ver_lines>>, <<Len(heap) + 1, Len(heap) + 2>>))
    /\ pc' = "L151"
    /\ UNCHANGED <<params, mat0, mat1, corrected_mat, check, dot_size,
                   dot_dist, hor_slope, ver_slope, list_hor_lines,
                   list_ver_lines, list_uhor_lines, list_uver_lines,
                   list_hor_data, list_ver_data, check1, check2, list_fact,
                   list_ffact, list_bfact, printed, error>>

\* list_fact = proc.calc_coef_backward(list_hor_lines, list_ver_lines, xcenter, ycenter, num_coef)
CalcCoefBackward ==
    /\ pc = "L151"
    /\ heap' = Append(heap, calc_coef_backward(list_hor_lines, list_ver_lines, xcenter, ycenter, num_coef))
    /\ list_fact' = Len(heap) + 1
    /\ calls' = Append(calls,
         Call("calc_coef_backward", 151, <<list_hor_lines, list_ver_lines, xcenter, ycenter, num_coef>>, <<Len(heap) + 1>>))
    /\ pc' = "L155"
    /\ UNCHANGED <<params, mat0, mat1, corrected_mat, check, dot_size,
                   dot_dist, hor_slope, ver_slope, list_hor_lines,
                   list_ver_lines, list_uhor_lines, list_uver_lines,
                   list_hor_data, list_ver_data, check1, check2, xcenter,
                   ycenter, list_ffact, list_bfact, printed, error>>

\* proc.calc_coef_backward raises: nothing is assigned, the exception ends the script
CalcCoefBackwardFails ==
    /\ pc = "L151"
    /\ error' = "DegenerateFit"
    /\ calls' = Append(calls,
         Call("calc_coef_backward", 151, <<list_hor_lines, list_ver_lines, xcenter, ycenter, num_coef>>, <<>>))
    /\ pc' = "error"
    /\ UNCHANGED <<params, heap, mat0, mat1, corrected_mat, check, dot_size,
                   dot_dist, hor_slope, ver_slope, list_hor_lines,
                   list_ver_lines, list_uhor_lines, list_uver_lines,
                   list_hor_data, list_ver_data, check1, check2, xcenter,
                   ycenter, list_fact, list_ffact, list_bfact, printed>>

\* corrected_mat = post.unwarp_image_backward(mat0, xcenter, ycenter, list_fact)
\* io.save_image of corrected_mat and of np.abs(corrected_mat - mat0)
UnwarpImageBackward ==
    /\ pc = "L155"
    /\ heap' = heap \o <<unwarp_image_backward(mat0, xcenter, ycenter, list_fact),
                      abs_diff(Len(heap) + 1, mat0)>>
    /\ corrected_mat' = Len(heap) + 1
    /\ calls' = calls \o
         << Call("unwarp_image_backward", 155, <<mat0, xcenter, ycenter, list_fact>>, <<Len(heap) + 1>>),
            Call("save_image", 156, <<corrected_mat'>>, <<>>),
            Call("abs_diff", 158, <<corrected_mat', mat0>>, <<Len(heap) + 2>>),
            Call("save_image", 157, <<Len(heap) + 2>>, <<>>) >>
    /\ pc' = "L159"
    /\ UNCHANGED <<params, mat0, mat1, check, dot_size, dot_dist, hor_slope,
                   ver_slope, list_hor_lines, list_ver_lines,
                   list_uhor_lines, list_uver_lines, list_hor_data,
                   list_ver_data, check1, check2, xcenter, ycenter,
                   list_fact, list_ffact, list_bfact, printed, error>>

\* io.save_metadata_txt(..., xcenter, ycenter, list_fact)
SaveMetadataBackward ==
    /\ pc = "L159"
    /\ calls' = Append(calls,
         Call("save_metadata_txt", 159, <<xcenter, ycenter, list_fact>>, <<>>))
    /\ pc' = "L163"
    /\ UNCHANGED <<params, heap, mat0, mat1, corrected_mat, check, dot_size,
                   dot_dist, hor_slope, ver_slope, list_hor_lines,
                   list_ver_lines, list_uhor_lines, list_uver_lines,
                   list_hor_data, list_ver_data, check1, check2, xcenter,
                   ycenter, list_fact, list_ffact, list_bfact, printed,
                   error>>

\* list_uhor_lines = post.unwarp_line_backward(list_hor_lines, xcenter, ycenter, list_fact)
\* list_uver_lines = post.unwarp_line_backward(list_ver_lines, xcenter, ycenter, list_fact)
UnwarpLineBackward ==
    /\ pc = "L163"
    /\ heap' = heap \o <<unwarp_line_backward(list_hor_lines, xcenter, ycenter, list_fact),
                      unwarp_line_backward(list_ver_lines, xcenter, ycenter, list_fact)>>
    /\ list_uhor_lines' = Len(heap) + 1
    /\ list_uver_lines' = Len(heap) + 2
    /\ calls' = calls \o
         << Call("unwarp_line_backward", 163, <<list_hor_lines, xcenter, ycenter, list_fact>>, <<Len(heap) + 1>>),
            Call("unwarp_line_backward", 165, <<list_ver_lines, xcenter, ycenter, list_fact>>, <<Len(heap) + 2>>) >>
    /\ pc' = "L167"
    /\ UNCHANGED <<params, mat0, mat1, corrected_mat, check, dot_size,
                   dot_dist, hor_slope, ver_slope, list_hor_lines,
                   list_ver_lines, list_hor_data, list_ver_data, check1,
                   check2, xcenter, ycenter, list_fact, list_ffact,
                   list_bfact, printed, error>>

\* As CalcResidualBackward, but with the center 0.0, 0.0 of lines 126 and 129.
CalcResidualBackward_ZeroCenter ==
    /\ pc = "L167"
    /\ heap' = heap \o <<calc_residual_hor(list_uhor_lines, ZeroLit, ZeroLit),
                      calc_residual_ver(list_uver_lines, ZeroLit, ZeroLit)>>
    /\ list_hor_data' = Len(heap) + 1
    /\ list_ver_data' = Len(heap) + 2
    /\ calls' = calls \o
         << Call("calc_residual_hor", 167, <<list_uhor_lines, ZeroLit, ZeroLit>>, <<Len(heap) + 1>>),
            Call("calc_residual_ver", 168, <<list_uver_lines, ZeroLit, ZeroLit>>, <<Len(heap) + 2>>),
            Call("save_residual_plot", 169, <<list_hor_data'>>, <<>>),
            Call("save_residual_plot", 172, <<list_ver_data'>>, <<>>) >>
    /\ pc' = "L175"
    /\ UNCHANGED <<params, mat0, mat1, corrected_mat, check, dot_size, dot_dist,
                   hor_slope, ver_slope, list_hor_lines, list_ver_lines,
                   list_uhor_lines, list_uver_lines, check1, check2, xcenter,
                   ycenter, list_fact, list_ffact, list_bfact, printed, error>>

\* list_hor_data = post.calc_residual_hor(list_uhor_lines, xcenter, ycenter)
\* list_ver_data = post.calc_residual_ver(list_uver_lines, xcenter, ycenter)
\* io.save_residual_plot of each
CalcResidualBackward ==
    /\ pc = "L167"
    /\ heap' = heap \o <<calc_residual_hor(list_uhor_lines, xcenter, ycenter),
                      calc_residual_ver(list_uver_lines, xcenter, ycenter)>>
    /\ list_hor_data' = Len(heap) + 1
    /\ list_ver_data' = Len(heap) + 2
    /\ calls' = calls \o
         << Call("calc_residual_hor", 167, <<list_uhor_lines, xcenter, ycenter>>, <<Len(heap) + 1>>),
            Call("calc_residual_ver", 168, <<list_uver_lines, xcenter, ycenter>>, <<Len(heap) + 2>>),
            Call("save_residual_plot", 169, <<list_hor_data'>>, <<>>),
            Call("save_residual_plot", 172, <<list_ver_data'>>, <<>>) >>
    /\ pc' = "L175"
    /\ UNCHANGED <<params, mat0, mat1, corrected_mat, check, dot_size,
                   dot_dist, hor_slope, ver_slope, list_hor_lines,
                   list_ver_lines, list_uhor_lines, list_uver_lines, check1,
                   check2, xcenter, ycenter, list_fact, list_ffact,
                   list_bfact, printed, error>>

\* check1 = post.check_distortion(list_hor_data)
\* check2 = post.check_distortion(list_ver_data)
\* if check1 or check2: print(...)
CheckDistortionBackward ==
    /\ pc = "L175"
    /\ \E c1, c2 \in BOOLEAN :
         /\ check1' = c1
         /\ check2' = c2
         /\ printed' = IF c1 \/ c2
                       THEN Append(printed, Warning("Correction of the backward model is not at sub-pixel accuracy"))
                       ELSE printed
    /\ calls' = calls \o
         << Call("check_distortion", 175, <<list_hor_data>>, <<>>),
            Call("check_distortion", 176, <<list_ver_data>>, <<>>) >>
    /\ pc' = "L188"
    /\ UNCHANGED <<params, heap, mat0, mat1, corrected_mat, check, dot_size,
                   dot_dist, hor_slope, ver_slope, list_hor_lines,
                   list_ver_lines, list_uhor_lines, list_uver_lines,
                   list_hor_data, list_ver_data, xcenter, ycenter, list_fact,
                   list_ffact, list_bfact, error>>

\* list_fact = proc.calc_coef_forward(list_hor_lines, list_ver_lines, xcenter, ycenter, num_coef)
CalcCoefForward ==
    /\ pc = "L188"
    /\ heap' = Append(heap, calc_coef_forward(list_hor_lines, list_ver_lines, xcenter, ycenter, num_coef))
    /\ list_fact' = Len(heap) + 1
    /\ calls' = Append(calls,
         Call("calc_coef_forward", 188, <<list_hor_lines, list_ver_lines, xcenter, ycenter, num_coef>>, <<Len(heap) + 1>>))
    /\ pc' = "L193"
    /\ UNCHANGED <<params, mat0, mat1, corrected_mat, check, dot_size,
                   dot_dist, hor_slope, ver_slope, list_hor_lines,
                   list_ver_lines, list_uhor_lines, list_uver_lines,
                   list_hor_data, list_ver_data, check1, check2, xcenter,
                   ycenter, list_ffact, list_bfact, printed, error>>

\* As CalcCoefForwardFails, but the exception is caught and the script goes on.
CalcCoefForwardFails_Caught ==
    /\ pc = "L188"
    /\ calls' = Append(calls,
         Call("calc_coef_forward", 188,
              <<list_hor_lines, list_ver_lines, xcenter, ycenter, num_coef>>, <<>>))
    /\ pc' = "L193"
    /\ UNCHANGED <<params, heap, mat0, mat1, corrected_mat, check, dot_size,
                   dot_dist, hor_slope, ver_slope, list_hor_lines,
                   list_ver_lines, list_uhor_lines, list_uver_lines,
                   list_hor_data, list_ver_data, check1, check2, xcenter,
                   ycenter, list_fact, list_ffact, list_bfact, printed, error>>

\* proc.calc_coef_forward raises: nothing is assigned, the exception ends the script
CalcCoefForwardFails ==
    /\ pc = "L188"
    /\ error' = "DegenerateFit"
    /\ calls' = Append(calls,
         Call("calc_coef_forward", 188, <<list_hor_lines, list_ver_lines, xcenter, ycenter, num_coef>>, <<>>))
    /\ pc' = "error"
    /\ UNCHANGED <<params, heap, mat0, mat1, corrected_mat, check, dot_size,
                   dot_dist, hor_slope, ver_slope, list_hor_lines,
                   list_ver_lines, list_uhor_lines, list_uver_lines,
                   list_hor_data, list_ver_data, check1, check2, xcenter,
                   ycenter, list_fact, list_ffact, list_bfact, printed>>

\* corrected_mat = post.unwarp_image_forward(mat0, xcenter, ycenter, list_fact)
\* io.save_image of corrected_mat and of np.abs(corrected_mat - mat0)
UnwarpImageForward ==
    /\ pc = "L193"
    /\ \E vacant \in 0..MaxVacant :
         /\ heap' = heap \o
              <<unwarp_image_forward(mat0, xcenter, ycenter, list_fact, vacant),
                abs_diff(Len(heap) + 1, mat0)>>
         /\ printed' = printed \o coverage_report(vacant)
    /\ corrected_mat' = Len(heap) + 1
    /\ calls' = calls \o
         << Call("unwarp_image_forward", 193, <<mat0, xcenter, ycenter, list_fact>>, <<Len(heap) + 1>>),
            Call("save_image", 194, <<corrected_mat'>>, <<>>),
            Call("abs_diff", 196, <<corrected_mat', mat0>>, <<Len(heap) + 2>>),
            Call("save_image", 195, <<Len(heap) + 2>>, <<>>) >>
    /\ pc' = "L197"
    /\ UNCHANGED <<params, mat0, mat1, check, dot_size, dot_dist, hor_slope,
                   ver_slope, list_hor_lines, list_ver_lines,
                   list_uhor_lines, list_uver_lines, list_hor_data,
                   list_ver_data, check1, check2, xcenter, ycenter,
                   list_fact, list_ffact, list_bfact, error>>

\* io.save_metadata_txt(..., xcenter, ycenter, list_fact)
SaveMetadataForward ==
    /\ pc = "L197"
    /\ calls' = Append(calls,
         Call("save_metadata_txt", 197, <<xcenter, ycenter, list_fact>>, <<>>))
    /\ pc' = "L201"
    /\ UNCHANGED <<params, heap, mat0, mat1, corrected_mat, check, dot_size,
                   dot_dist, hor_slope, ver_slope, list_hor_lines,
                   list_ver_lines, list_uhor_lines, list_uver_lines,
                   list_hor_data, list_ver_data, check1, check2, xcenter,
                   ycenter, list_fact, list_ffact, list_bfact, printed,
                   error>>

\* As UnwarpLineForward, but unwarping the lines list_uhor_lines and
\* list_uver_lines that the backward model has unwarped.
UnwarpLineForward_Chained ==
    /\ pc = "L201"
    /\ heap' = heap \o <<unwarp_line_forward(list_uhor_lines, xcenter, ycenter, list_fact),
                      unwarp_line_forward(list_uver_lines, xcenter, ycenter, list_fact)>>
    /\ list_uhor_lines' = Len(heap) + 1
    /\ list_uver_lines' = Len(heap) + 2
    /\ calls' = calls \o
         << Call("unwarp_line_forward", 201, <<list_uhor_lines, xcenter, ycenter, list_fact>>, <<Len(heap) + 1>>),
            Call("unwarp_line_forward", 203, <<list_uver_lines, xcenter, ycenter, list_fact>>, <<Len(heap) + 2>>),
            Call("save_plot_image", 205, <<list_uhor_lines'>>, <<>>),
            Call("save_plot_image", 207, <<list_uver_lines'>>, <<>>) >>
    /\ pc' = "L209"
    /\ UNCHANGED <<params, mat0, mat1, corrected_mat, check, dot_size, dot_dist,
                   hor_slope, ver_slope, list_hor_lines, list_ver_lines,
                   list_hor_data, list_ver_data, check1, check2, xcenter,
                   ycenter, list_fact, list_ffact, list_bfact, printed, error>>

\* list_uhor_lines = post.unwarp_line_forward(list_hor_lines, xcenter, ycenter, list_fact)
\* list_uver_lines = post.unwarp_line_forward(list_ver_lines, xcenter, ycenter, list_fact)
\* io.save_plot_image of each
UnwarpLineForward ==
    /\ pc = "L201"
    /\ heap' = heap \o <<unwarp_line_forward(list_hor_lines, xcenter, ycenter, list_fact),
                      unwarp_line_forward(list_ver_lines, xcenter, ycenter, list_fact)>>
    /\ list_uhor_lines' = Len(heap) + 1
    /\ list_uver_lines' = Len(heap) + 2
    /\ calls' = calls \o
         << Call("unwarp_line_forward", 201, <<list_hor_lines, xcenter, ycenter, list_fact>>, <<Len(heap) + 1>>),
            Call("unwarp_line_forward", 203, <<list_ver_lines, xcenter, ycenter, list_fact>>, <<Len(heap) + 2>>),
            Call("save_plot_image", 205, <<list_uhor_lines'>>, <<>>),
            Call("save_plot_image", 207, <<list_uver_lines'>>, <<>>) >>
    /\ pc' = "L209"
    /\ UNCHANGED <<params, mat0, mat1, corrected_mat, check, dot_size,
                   dot_dist, hor_slope, ver_slope, list_hor_lines,
                   list_ver_lines, list_hor_data, list_ver_data, check1,
                   check2, xcenter, ycenter, list_fact, list_ffact,
                   list_bfact, printed, error>>

\* list_hor_data = post.calc_residual_hor(list_uhor_lines, xcenter, ycenter)
\* list_ver_data = post.calc_residual_ver(list_uver_lines, xcenter, ycenter)
\* io.save_residual_plot of each
CalcResidualForward ==
    /\ pc = "L209"
    /\ heap' = heap \o <<calc_residual_hor(list_uhor_lines, xcenter, ycenter),
                      calc_residual_ver(list_uver_lines, xcenter, ycenter)>>
    /\ list_hor_data' = Len(heap) + 1
    /\ list_ver_data' = Len(heap) + 2
    /\ calls' = calls \o
         << Call("calc_residual_hor", 209, <<list_uhor_lines, xcenter, ycenter>>, <<Len(heap) + 1>>),
            Call("calc_residual_ver", 210, <<list_uver_lines, xcenter, ycenter>>, <<Len(heap) + 2>>),
            Call("save_residual_plot", 211, <<list_hor_data'>>, <<>>),
            Call("save_residual_plot", 214, <<list_ver_data'>>, <<>>) >>
    /\ pc' = "L217"
    /\ UNCHANGED <<params, mat0, mat1, corrected_mat, check, dot_size,
                   dot_dist, hor_slope, ver_slope, list_hor_lines,
                   list_ver_lines, list_uhor_lines, list_uver_lines, check1,
                   check2, xcenter, ycenter, list_fact, list_ffact,
                   list_bfact, printed, error>>

\* check1 = post.check_distortion(list_hor_data)
\* check2 = post.check_distortion(list_ver_data)
\* if check1 or check2: print(...)
CheckDistortionForward ==
    /\ pc = "L217"
    /\ \E c1, c2 \in BOOLEAN :
         /\ check1' = c1
         /\ check2' = c2
         /\ printed' = IF c1 \/ c2
                       THEN Append(printed, Warning("Correction of the forward model is not at sub-pixel accuracy"))
                       ELSE printed
    /\ calls' = calls \o
         << Call("check_distortion", 217, <<list_hor_data>>, <<>>),
            Call("check_distortion", 218, <<list_ver_data>>, <<>>) >>
    /\ pc' = "L230"
    /\ UNCHANGED <<params, heap, mat0, mat1, corrected_mat, check, dot_size,
                   dot_dist, hor_slope, ver_slope, list_hor_lines,
                   list_ver_lines, list_uhor_lines, list_uver_lines,
                   list_hor_data, list_ver_data, xcenter, ycenter, list_fact,
                   list_ffact, list_bfact, error>>

\* list_ffact, list_bfact = proc.calc_coef_backward_from_forward(
\*     list_hor_lines, list_ver_lines, xcenter, ycenter, num_coef)
CalcCoefBackwardFromForward ==
    /\ pc = "L230"
    /\ heap' = heap \o <<calc_coef_backward_from_forward_f(list_hor_lines, list_ver_lines, xcenter, ycenter, num_coef),
                      calc_coef_backward_from_forward_b(list_hor_lines, list_ver_lines, xcenter, ycenter, num_coef)>>
    /\ list_ffact' = Len(heap) + 1
    /\ list_bfact' = Len(heap) + 2
    /\ calls' = Append(calls,
         Call("calc_coef_backward_from_forward", 230, <<list_hor_lines, list_ver_lines, xcenter, ycenter, num_coef>>, <<Len(heap) + 1, Len(heap) + 2>>))
    /\ pc' = "L234"
    /\ UNCHANGED <<params, mat0, mat1, corrected_mat, check, dot_size,
                   dot_dist, hor_slope, ver_slope, list_hor_lines,
                   list_ver_lines, list_uhor_lines, list_uver_lines,
                   list_hor_data, list_ver_data, check1, check2, xcenter,
                   ycenter, list_fact, printed, error>>

\* proc.calc_coef_backward_from_forward raises: nothing is assigned, the exception ends the script
CalcCoefBackwardFromForwardFails ==
    /\ pc = "L230"
    /\ error' = "DegenerateFit"
    /\ calls' = Append(calls,
         Call("calc_coef_backward_from_forward", 230, <<list_hor_lines, list_ver_lines, xcenter, ycenter, num_coef>>, <<>>))
    /\ pc' = "error"
    /\ UNCHANGED <<params, heap, mat0, mat1, corrected_mat, check, dot_size,
                   dot_dist, hor_slope, ver_slope, list_hor_lines,
                   list_ver_lines, list_uhor_lines, list_uver_lines,
                   list_hor_data, list_ver_data, check1, check2, xcenter,
                   ycenter, list_fact, list_ffact, list_bfact, printed>>

\* As UnwarpImageBackwardFromForward, but with list_ffact.
UnwarpImageBackwardFromForward_Ffact ==
    /\ pc = "L234"
    /\ heap' = heap \o <<unwarp_image_backward(mat0, xcenter, ycenter, list_ffact),
                      abs_diff(Len(heap) + 1, mat0)>>
    /\ corrected_mat' = Len(heap) + 1
    /\ calls' = calls \o
         << Call("unwarp_image_backward", 234, <<mat0, xcenter, ycenter, list_ffact>>, <<Len(heap) + 1>>),
            Call("save_image", 236, <<corrected_mat'>>, <<>>),
            Call("abs_diff", 238, <<corrected_mat', mat0>>, <<Len(heap) + 2>>),
            Call("save_image", 237, <<Len(heap) + 2>>, <<>>) >>
    /\ pc' = "L239"
    /\ UNCHANGED <<params, mat0, mat1, check, dot_size, dot_dist, hor_slope,
                   ver_slope, list_hor_lines, list_ver_lines, list_uhor_lines,
                   list_uver_lines, list_hor_data, list_ver_data, check1,
                   check2, xcenter, ycenter, list_fact, list_ffact,
                   list_bfact, printed, error>>

\* corrected_mat = post.unwarp_image_backward(mat0, xcenter, ycenter, list_bfact)
\* io.save_image of corrected_mat and of np.abs(corrected_mat - mat0)
UnwarpImageBackwardFromForward ==
    /\ pc = "L234"
    /\ heap' = heap \o <<unwarp_image_backward(mat0, xcenter, ycenter, list_bfact),
                      abs_diff(Len(heap) + 1, mat0)>>
    /\ corrected_mat' = Len(heap) + 1
    /\ calls' = calls \o
         << Call("unwarp_image_backward", 234, <<mat0, xcenter, ycenter, list_bfact>>, <<Len(heap) + 1>>),
            Call("save_image", 236, <<corrected_mat'>>, <<>>),
            Call("abs_diff", 238, <<corrected_mat', mat0>>, <<Len(heap) + 2>>),
            Call("save_image", 237, <<Len(heap) + 2>>, <<>>) >>
    /\ pc' = "L239"
    /\ UNCHANGED <<params, mat0, mat1, check, dot_size, dot_dist, hor_slope,
                   ver_slope, list_hor_lines, list_ver_lines,
                   list_uhor_lines, list_uver_lines, list_hor_data,
                   list_ver_data, check1, check2, xcenter, ycenter,
                   list_fact, list_ffact, list_bfact, printed, error>>

\* io.save_metadata_txt(..., xcenter, ycenter, list_bfact)
SaveMetadataBackwardFromForward ==
    /\ pc = "L239"
    /\ calls' = Append(calls,
         Call("save_metadata_txt", 239, <<xcenter, ycenter, list_bfact>>, <<>>))
    /\ pc' = "L242"
    /\ UNCHANGED <<params, heap, mat0, mat1, corrected_mat, check, dot_size,
                   dot_dist, hor_slope, ver_slope, list_hor_lines,
                   list_ver_lines, list_uhor_lines, list_uver_lines,
                   list_hor_data, list_ver_data, check1, check2, xcenter,
                   ycenter, list_fact, list_ffact, list_bfact, printed,
                   error>>

\* list_uhor_lines = post.unwarp_line_backward(list_hor_lines, xcenter, ycenter, list_bfact)
\* list_uver_lines = post.unwarp_line_backward(list_ver_lines, xcenter, ycenter, list_bfact)
UnwarpLineBackwardFromForward ==
    /\ pc = "L242"
    /\ heap' = heap \o <<unwarp_line_backward(list_hor_lines, xcenter, ycenter, list_bfact),
                      unwarp_line_backward(list_ver_lines, xcenter, ycenter, list_bfact)>>
    /\ list_uhor_lines' = Len(heap) + 1
    /\ list_uver_lines' = Len(heap) + 2
    /\ calls' = calls \o
         << Call("unwarp_line_backward", 242, <<list_hor_lines, xcenter, ycenter, list_bfact>>, <<Len(heap) + 1>>),
            Call("unwarp_line_backward", 244, <<list_ver_lines, xcenter, ycenter, list_bfact>>, <<Len(heap) + 2>>) >>
    /\ pc' = "L246"
    /\ UNCHANGED <<params, mat0, mat1, corrected_mat, check, dot_size,
                   dot_dist, hor_slope, ver_slope, list_hor_lines,
                   list_ver_lines, list_hor_data, list_ver_data, check1,
                   check2, xcenter, ycenter, list_fact, list_ffact,
                   list_bfact, printed, error>>

\* list_hor_data = post.calc_residual_hor(list_uhor_lines, xcenter, ycenter)
\* list_ver_data = post.calc_residual_ver(list_uver_lines, xcenter, ycenter)
\* io.save_residual_plot of each
CalcResidualBackwardFromForward ==
    /\ pc = "L246"
    /\ heap' = heap \o <<calc_residual_hor(list_uhor_lines, xcenter, ycenter),
                      calc_residual_ver(list_uver_lines, xcenter, ycenter)>>
    /\ list_hor_data' = Len(heap) + 1
    /\ list_ver_data' = Len(heap) + 2
    /\ calls' = calls \o
         << Call("calc_residual_hor", 246, <<list_uhor_lines, xcenter, ycenter>>, <<Len(heap) + 1>>),
            Call("calc_residual_ver", 247, <<list_uver_lines, xcenter, ycenter>>, <<Len(heap) + 2>>),
            Call("save_residual_plot", 248, <<list_hor_data'>>, <<>>),
            Call("save_residual_plot", 251, <<list_ver_data'>>, <<>>) >>
    /\ pc' = "L254"
    /\ UNCHANGED <<params, mat0, mat1, corrected_mat, check, dot_size,
                   dot_dist, hor_slope, ver_slope, list_hor_lines,
                   list_ver_lines, list_uhor_lines, list_uver_lines, check1,
                   check2, xcenter, ycenter, list_fact, list_ffact,
                   list_bfact, printed, error>>

\* check1 = post.check_distortion(list_hor_data)
\* check2 = post.check_distortion(list_ver_data)
\* if check1 or check2: print(...)
CheckDistortionBackwardFromForward ==
    /\ pc = "L254"
    /\ \E c1, c2 \in BOOLEAN :
         /\ check1' = c1
         /\ check2' = c2
         /\ printed' = IF c1 \/ c2
                       THEN Append(printed, Warning("Correction of the backward-from-forward model is not at sub-pixel accuracy"))
                       ELSE printed
    /\ calls' = calls \o
         << Call("check_distortion", 254, <<list_hor_data>>, <<>>),
            Call("check_distortion", 255, <<list_ver_data>>, <<>>) >>
    /\ pc' = "done"
    /\ UNCHANGED <<params, heap, mat0, mat1, corrected_mat, check, dot_size,
                   dot_dist, hor_slope, ver_slope, list_hor_lines,
                   list_ver_lines, list_uhor_lines, list_uver_lines,
                   list_hor_data, list_ver_data, xcenter, ycenter, list_fact,
                   list_ffact, list_bfact, error>>

Next ==
    \/ LoadImage
    \/ NormalizationFft
    \/ CopyImage
    \/ Binarization
    \/ CheckNumDots
    \/ RaiseValueError
    \/ SaveBinarized
    \/ CalcSizeDistance
    \/ SelectDotsBasedSize
    \/ SelectDotsBasedRatio
    \/ CalcSlopes
    \/ GroupDotsHorLines
    \/ GroupDotsVerLines
    \/ RemoveResidualDotsHor
    \/ RemoveResidualDotsVer
    \/ CalcResidualBefore
    \/ CheckDistortionBefore
    \/ FindCodCoarse
    \/ CalcCoefBackward
    \/ CalcCoefBackwardFails
    \/ UnwarpImageBackward
    \/ SaveMetadataBackward
    \/ UnwarpLineBackward
    \/ CalcResidualBackward
    \/ CheckDistortionBackward
    \/ CalcCoefForward
    \/ CalcCoefForwardFails
    \/ UnwarpImageForward
    \/ SaveMetadataForward
    \/ UnwarpLineForward
    \/ CalcResidualForward
    \/ CheckDistortionForward
    \/ CalcCoefBackwardFromForward
    \/ CalcCoefBackwardFromForwardFails
    \/ UnwarpImageBackwardFromForward
    \/ SaveMetadataBackwardFromForward
    \/ UnwarpLineBackwardFromForward
    \/ CalcResidualBackwardFromForward
    \/ CheckDistortionBackwardFromForward

Spec == Init /\ [][Next]_vars

----------------------------------------------------------------------------
(* Vocabulary of the properties *)

Fits == {"calc_coef_backward", "calc_coef_forward",
         "calc_coef_backward_from_forward"}
Groupings == {"group_dots_hor_lines", "group_dots_ver_lines"}
ImageUnwarps == {"unwarp_image_backward", "unwarp_image_forward"}
LineUnwarps == {"unwarp_line_backward", "unwarp_line_forward"}
Residuals == {"calc_residual_hor", "calc_residual_ver"}

\* The calls made so far of the functions in F.
CallsOf(F) == {i \in DOMAIN calls : calls[i].fn \in F}
\* A fit that raised: it returned nothing.
Failed(i) == calls[i].fn \in Fits /\ calls[i].out = <<>>
\* The elements of a sequence.
Range(s) == {s[k] : k \in DOMAIN s}
\* The last of the fits F called at or before call i; 0 when there is none.
ModelOf(F, i) ==
    LET before == {j \in F : j <= i}
    IN  IF before = {} THEN 0
        ELSE CHOOSE j \in before : \A k \in before : k <= j
\* The coefficient list call i receives.
CoefArg(i) ==
    IF calls[i].fn \in ImageUnwarps \cup LineUnwarps THEN calls[i].args[4]
    ELSE IF calls[i].fn = "save_metadata_txt" THEN calls[i].args[3]
    ELSE NoRef
\* The center call i receives.
CenterArg(i) ==
    IF calls[i].fn \in Fits THEN <<calls[i].args[3], calls[i].args[4]>>
    ELSE IF calls[i].fn \in ImageUnwarps \cup LineUnwarps \cup Residuals
         THEN <<calls[i].args[2], calls[i].args[3]>>
    ELSE IF calls[i].fn = "save_metadata_txt"
         THEN <<calls[i].args[1], calls[i].args[2]>>
    ELSE <<>>

----------------------------------------------------------------------------
\* C1: once check_num_dots has signalled too few objects, the run ends with
\* the ValueError and nothing else is called: check_num_dots is the last
\* call of the run, made once, and the only step left is the raise.
C1_InsufficientDotsEndsRun ==
    \A i \in CallsOf({"check_num_dots"}) :
        check_num_dots(calls[i].args[1]) =>
            /\ i = Len(calls)
            /\ CallsOf({"check_num_dots"}) = {i}
            /\ Cardinality(CallsOf({"binarization"})) = 1
            /\ pc \in {"L66", "error"}
            /\ pc = "error" => error = "ValueError"
            /\ printed = <<>>

\* A run that check_num_dots has ended.
C1_Witness ==
    /\ pc = "error"
    /\ error = "ValueError"
    /\ check
    /\ calls[Len(calls)].fn = "check_num_dots"

----------------------------------------------------------------------------
\* C2 as stated: grouping never receives a mask whose dots, those left by
\* the size filter and the axis-ratio filter, are fewer than the floor.
C2_Original_SurvivingDotsChecked ==
    \A i \in CallsOf(Groupings) : ~check_num_dots(calls[i].args[1])

\* C2 as amended: grouping is started only in a run where check_num_dots,
\* called once on the binarized mask before the two filters, found at least
\* the floor of objects.
C2_GroupingOnlyAfterBinarizedCountPassed ==
    LET N == CallsOf({"check_num_dots"})
        S == CallsOf({"select_dots_based_size", "select_dots_based_ratio"})
    IN
    \A i \in CallsOf(Groupings) :
        \E j \in N :
            /\ j < i
            /\ N = {j}
            /\ Get(calls[j].args[1]).op = "binarization"
            /\ ~check_num_dots(calls[j].args[1])
            /\ \A k \in S : j < k

\* Grouping has started on a mask with fewer dots than the floor.
C2_Witness ==
    \E i \in CallsOf(Groupings) :
        /\ check_num_dots(calls[i].args[1])
        /\ Get(calls[i].args[1]).op = "select_dots_based_ratio"

----------------------------------------------------------------------------
\* The place of a stage in the data flow; 0 for a call that is no stage.
StageRank(fn) ==
    IF fn = "binarization" THEN 1
    ELSE IF fn \in {"select_dots_based_size", "select_dots_based_ratio"} THEN 2
    ELSE IF fn \in Groupings THEN 3
    ELSE IF fn = "find_cod_coarse" THEN 4
    ELSE IF fn \in Fits THEN 5
    ELSE 0

\* C3: the stages happen in the order of the data flow, each model's fit
\* before its image unwarp, and that before its metadata save and its
\* residual check; and every call receives only objects that exist, made
\* before the objects the call returns: no call reads an unbound name.
C3_StagesInDataFlowOrder ==
    LET F == CallsOf(Fits)
        U == CallsOf(ImageUnwarps)
        S == CallsOf({"save_metadata_txt"})
        R == {i \in DOMAIN calls : StageRank(calls[i].fn) > 0}
    IN
    /\ \A i, j \in R :
           StageRank(calls[i].fn) < StageRank(calls[j].fn) => i < j
    /\ \A j \in R :
           StageRank(calls[j].fn) > 1 =>
               \E i \in R :
                   i < j /\ StageRank(calls[i].fn) = StageRank(calls[j].fn) - 1
    /\ \A j \in U :
           /\ ModelOf(F, j) > 0
           /\ CoefArg(j) \in Range(calls[ModelOf(F, j)].out)
    /\ \A k \in S :
           \E j \in U :
               j < k /\ ModelOf(F, j) = ModelOf(F, k) /\ CoefArg(j) = CoefArg(k)
    /\ \A k \in CallsOf({"check_distortion"}) :
           ModelOf(F, k) > 0 =>
               /\ \E j \in U : j < k /\ ModelOf(F, j) = ModelOf(F, k)
               /\ \E j \in S : j < k /\ ModelOf(F, j) = ModelOf(F, k)
    /\ \A i \in DOMAIN calls :
           \A k \in DOMAIN calls[i].args :
               /\ calls[i].args[k] >= 1
               /\ calls[i].args[k] <= Len(heap)
               /\ \A n \in DOMAIN calls[i].out :
                      calls[i].args[k] < calls[i].out[n]

\* A run that went through all three models.
C3_Witness ==
    /\ pc = "done"
    /\ Cardinality(CallsOf(Fits)) = 3
    /\ Cardinality(CallsOf({"save_metadata_txt"})) = 3

----------------------------------------------------------------------------
\* C4: once loaded, mat0 is bound to the array load_image returned and that
\* array holds what was loaded; mat1 and corrected_mat are other arrays;
\* segmentation never receives mat0's array; every image unwarp receives
\* mat0 and returns another array.
C4_LoadedImageNeverChanged ==
    /\ mat0 = NoRef => pc = "L49"
    /\ mat0 # NoRef =>
        /\ calls[1].fn = "load_image"
        /\ mat0 = calls[1].out[1]
        /\ Get(mat0) = load_image(file)
        /\ mat1 # mat0
        /\ corrected_mat # mat0
        /\ \A i \in CallsOf({"binarization", "select_dots_based_size",
                             "select_dots_based_ratio"}) :
               calls[i].args[1] # mat0
        /\ \A i \in CallsOf(ImageUnwarps) :
               /\ calls[i].args[1] = mat0
               /\ mat0 \notin Range(calls[i].out)

\* All three unwarps have run on the image, segmentation having worked on a copy.
C4_Witness ==
    /\ pc = "done"
    /\ ~norm
    /\ Cardinality(CallsOf(ImageUnwarps)) = 3
    /\ corrected_mat # NoRef

----------------------------------------------------------------------------
\* C5: find_cod_coarse is called at most once and find_cod_fine never; from
\* that call on (xcenter, ycenter) is its result, and every later fit,
\* unwarp, residual computation and metadata save receives that pair.
C5_CenterComputedOnce ==
    /\ CallsOf({"find_cod_fine"}) = {}
    /\ Cardinality(CallsOf({"find_cod_coarse"})) <= 1
    /\ CallsOf({"find_cod_coarse"}) = {} => xcenter = NoRef /\ ycenter = NoRef
    /\ \A f \in CallsOf({"find_cod_coarse"}) :
        /\ <<xcenter, ycenter>> = calls[f].out
        /\ xcenter # ycenter
        /\ \A i \in DOMAIN calls :
               (i > f /\ CenterArg(i) # <<>>) => CenterArg(i) = calls[f].out

\* The third model's metadata has been saved with the center.
C5_Witness ==
    /\ pc = "done"
    /\ \E i \in CallsOf({"save_metadata_txt"}) :
           calls[i].line = 239 /\ CenterArg(i) = <<xcenter, ycenter>>

----------------------------------------------------------------------------
\* The lines of the calls of a complete run, in the order they are made.
ScriptLines ==
    << 49, IF norm THEN 56 ELSE 58, 64, 65, 70, 75, 81, 82, 86, 87, 91, 92,
       101, 103, 105, 107, 113, 115, 117, 119, 126, 127, 129, 130, 132, 133,
       139,
       151, 155, 156, 158, 157, 159, 163, 165, 167, 168, 169, 172, 175, 176,
       188, 193, 194, 196, 195, 197, 201, 203, 205, 207, 209, 210, 211, 214,
       217, 218,
       230, 234, 236, 238, 237, 239, 242, 244, 246, 247, 248, 251, 254, 255 >>

\* The lines at which check_distortion is called for check1.
CheckLabels == {"L132", "L175", "L217", "L254"}

\* What a step that calls check_distortion must leave alone.
AllButChecks ==
    <<params, heap, mat0, mat1, corrected_mat, check, dot_size, dot_dist,
      hor_slope, ver_slope, list_hor_lines, list_ver_lines, list_uhor_lines,
      list_uver_lines, list_hor_data, list_ver_data, xcenter, ycenter,
      list_fact, list_ffact, list_bfact, error>>

\* The calls made are the first calls of ScriptLines, all of them when the
\* run is done; a run is in error only after check_num_dots or a fit.
C6_Invariant ==
    /\ Len(calls) <= Len(ScriptLines)
    /\ \A i \in DOMAIN calls : calls[i].line = ScriptLines[i]
    /\ pc = "done" => Len(calls) = Len(ScriptLines)
    /\ error # "" =>
        /\ pc = "error"
        /\ calls[Len(calls)].fn \in Fits \cup {"check_num_dots"}
    /\ \A k \in DOMAIN printed :
           printed[k].msg # "coverage" => printed[k].num = 0

\* A step that calls check_distortion goes on to the next statement and
\* changes only check1, check2, printed and the record of calls.
C6_Step ==
    pc \in CheckLabels =>
        /\ pc' \notin {pc, "error"}
        /\ UNCHANGED AllButChecks
        /\ SubSeq(calls', 1, Len(calls)) = calls
        /\ \A i \in (DOMAIN calls') \ (DOMAIN calls) :
               calls'[i].fn = "check_distortion" /\ calls'[i].out = <<>>

\* C6: the results of check_distortion are advisory.  Whatever they are, a
\* run makes the calls of the script in the same order, stops early only
\* for check_num_dots or a failed fit, and a step that calls
\* check_distortion changes nothing but check1, check2 and what is
\* printed, so that the center and the coefficients are the same for every
\* combination of results.
C6_ChecksAreAdvisory == [](C6_Invariant) /\ [][C6_Step]_vars

\* A complete run in which the distortion was reported as not significant
\* and a correction as not at sub-pixel accuracy.
C6_Witness ==
    /\ pc = "done"
    /\ \E k \in DOMAIN printed : printed[k].msg = "Distortion is not significant"
    /\ \E k \in DOMAIN printed :
           printed[k].msg = "Correction of the backward model is not at sub-pixel accuracy"
    /\ Cardinality(CallsOf({"save_metadata_txt"})) = 3

----------------------------------------------------------------------------
----------------------------------------------------------------------------
\* C8: a fit that fails ends the run: it is the last call, the run is in
\* the error state, and no unwarp or metadata save ever receives a
\* coefficient list other than one the last fit before it returned.
C8_FailedFitIsTerminal ==
    /\ \A i \in CallsOf(Fits) :
           Failed(i) =>
               /\ i = Len(calls)
               /\ pc = "error"
               /\ error = "DegenerateFit"
    /\ LET F == CallsOf(Fits) IN
       \A i \in CallsOf(ImageUnwarps \cup LineUnwarps \cup {"save_metadata_txt"}) :
           /\ ModelOf(F, i) > 0
           /\ CoefArg(i) \in Range(calls[ModelOf(F, i)].out)

\* The forward fit has failed while list_fact holds the backward coefficients.
C8_Witness ==
    /\ pc = "error"
    /\ error = "DegenerateFit"
    /\ calls[Len(calls)].fn = "calc_coef_forward"
    /\ Get(list_fact).op = "calc_coef_backward"

----------------------------------------------------------------------------
\* The functions whose result is a backward coefficient list.
BackwardCoefs == {"calc_coef_backward", "calc_coef_backward_from_forward.bfact"}

\* C9: within one correction the metadata save, the image unwarp and the
\* line unwarps receive the same coefficient list; the backward unwarps
\* receive only backward coefficients and the forward unwarps only the
\* result of calc_coef_forward.
C9_SavedModelIsAppliedModel ==
    LET F == CallsOf(Fits)
        U == CallsOf(ImageUnwarps \cup LineUnwarps)
    IN
    /\ \A i \in CallsOf({"save_metadata_txt"}) :
        /\ \E j \in U :
               /\ calls[j].fn \in ImageUnwarps
               /\ j < i
               /\ ModelOf(F, j) = ModelOf(F, i)
        /\ \A j \in U :
               ModelOf(F, j) = ModelOf(F, i) => CoefArg(j) = CoefArg(i)
    /\ \A j \in CallsOf({"unwarp_image_backward", "unwarp_line_backward"}) :
           Get(CoefArg(j)).op \in BackwardCoefs
    /\ \A j \in CallsOf({"unwarp_image_forward", "unwarp_line_forward"}) :
           Get(CoefArg(j)).op = "calc_coef_forward"
    /\ \A i \in CallsOf({"save_metadata_txt"}) :
           Get(CoefArg(i)).op =
               (IF calls[i].line = 159 THEN "calc_coef_backward"
                ELSE IF calls[i].line = 197 THEN "calc_coef_forward"
                ELSE "calc_coef_backward_from_forward.bfact")

\* The third correction has saved list_bfact and unwarped the lines with it.
C9_Witness ==
    /\ \E i \in CallsOf({"save_metadata_txt"}) :
           /\ calls[i].line = 239
           /\ CoefArg(i) = list_bfact
    /\ \E j \in CallsOf({"unwarp_line_backward"}) : calls[j].line = 244
    /\ Get(list_fact).op = "calc_coef_forward"

----------------------------------------------------------------------------
\* The calls that read a line set as their first arguments.
LineReaders == Fits \cup {"find_cod_coarse"}

\* C10: once both residual cleanups have run, each once, list_hor_lines and
\* list_ver_lines stay bound to their results; the center estimation and
\* the fits receive both, every line unwarp receives one of them and
\* returns another object, and every residual computation after a
\* correction receives the result of that correction's line unwarp.
C10_RefinedLinesNeverChanged ==
    LET F == CallsOf(Fits)
        LU == CallsOf(LineUnwarps)
        RS == CallsOf(Residuals)
    IN
    /\ Cardinality(CallsOf({"remove_residual_dots_hor"})) <= 1
    /\ Cardinality(CallsOf({"remove_residual_dots_ver"})) <= 1
    /\ \A h \in CallsOf({"remove_residual_dots_hor"}) :
       \A v \in CallsOf({"remove_residual_dots_ver"}) :
        /\ list_hor_lines = calls[h].out[1]
        /\ list_ver_lines = calls[v].out[1]
        /\ Get(list_hor_lines).op = "remove_residual_dots_hor"
        /\ Get(list_ver_lines).op = "remove_residual_dots_ver"
        /\ \A i \in CallsOf(LineReaders) :
               /\ calls[i].args[1] = list_hor_lines
               /\ calls[i].args[2] = list_ver_lines
        /\ \A i \in LU :
               /\ calls[i].args[1] =
                      (IF calls[i].line \in {163, 201, 242}
                       THEN list_hor_lines ELSE list_ver_lines)
               /\ calls[i].out[1] \notin {list_hor_lines, list_ver_lines}
        /\ list_uhor_lines \notin {list_hor_lines, list_ver_lines}
        /\ list_uver_lines \notin {list_hor_lines, list_ver_lines}
        /\ \A i \in RS :
               ModelOf(F, i) = 0 =>
                   calls[i].args[1] \in {list_hor_lines, list_ver_lines}
        /\ \A i \in RS :
               ModelOf(F, i) > 0 =>
                   \E j \in LU :
                       /\ j < i
                       /\ ModelOf(F, j) = ModelOf(F, i)
                       /\ calls[i].args[1] = calls[j].out[1]

\* The third validation has unwarped the refined lines.
C10_Witness ==
    /\ pc = "done"
    /\ \E i \in CallsOf({"unwarp_line_backward"}) :
           calls[i].line = 242 /\ calls[i].args[1] = list_hor_lines
    /\ Get(list_uhor_lines).op = "unwarp_line_backward"
====
